---------------------------- MODULE Spec2Model ----------------------------
(***************************************************************************)
(* Model of the advent-podcast server (src/server.js, the Glitch-aware     *)
(* version, lines 324-778): a directory of date-named audio files exposed  *)
(* as a token-gated, time-released podcast feed.                           *)
(*                                                                         *)
(* Conventions                                                             *)
(*  - a JavaScript string is a sequence of one-character strings;          *)
(*  - a JavaScript value is a record [t |-> type tag, v |-> payload];      *)
(*  - an instant is an integer number of hours since 1970-01-01T00:00Z;    *)
(*  - the server's time zone is its UTC offset in whole hours              *)
(*    (local time = UTC + tzOffset).                                       *)
(***************************************************************************)
EXTENDS Integers, Sequences, FiniteSets, TLC

VARIABLES
    projectDomain,  \* process.env.PROJECT_DOMAIN is set (hosted on Glitch)
    tzOffset,       \* UTC offset of the server's local time zone, in hours
    now,            \* the system clock read by new Date()
    audioDir,       \* the files of AUDIO_DIR: a set of [name, size]
    glitchAssets,   \* the lines of the .glitch-assets manifest
    metadataFile,   \* the metadata.yml document on disk
    req,            \* the request being answered (or the function call made)
    res,            \* the response sent (or the value returned)
    released        \* the names the release gate has let through so far

vars == <<projectDomain, tzOffset, now, audioDir, glitchAssets, metadataFile,
          req, res, released>>

---------------------------------------------------------------------------
(* JavaScript values                                                       *)

Undefined == [t |-> "undefined", v |-> 0]
Null      == [t |-> "null", v |-> 0]
NaN       == [t |-> "nan", v |-> 0]
Str(s)    == [t |-> "string", v |-> s]
Num(n)    == [t |-> "number", v |-> n]
Bool(b)   == [t |-> "boolean", v |-> b]
List(l)   == [t |-> "array", v |-> l]
DateAt(h) == [t |-> "date", v |-> h]
InvalidDate == [t |-> "invalid-date", v |-> 0]

\* ToBoolean: undefined, null, NaN, "", 0 and false are falsy; every object
\* (an array, a Date, also an Invalid Date) is truthy.
Truthy(x) ==
    CASE x.t \in {"undefined", "null", "nan"} -> FALSE
      [] x.t = "string"  -> x.v # <<>>
      [] x.t = "number"  -> x.v # 0
      [] x.t = "boolean" -> x.v
      [] OTHER -> TRUE

\* a || b
OrElse(a, b) == IF Truthy(a) THEN a ELSE b

---------------------------------------------------------------------------
(* Characters and strings                                                  *)

Digits == <<"0", "1", "2", "3", "4", "5", "6", "7", "8", "9">>

IsDigit(c) == \E i \in 1..10 : Digits[i] = c

DigitVal(c) == (CHOOSE i \in 1..10 : Digits[i] = c) - 1

\* String.prototype.toLowerCase, on the letters the model's names use.
LowerOf(c) ==
    CASE c = "M" -> "m"
      [] c = "P" -> "p"
      [] c = "A" -> "a"
      [] c = "B" -> "b"
      [] c = "C" -> "c"
      [] c = "X" -> "x"
      [] OTHER -> c

toLowerCase(s) == [i \in 1..Len(s) |-> LowerOf(s[i])]

\* s.replace(/_/g, ' ')
UnderscoresToSpaces(s) == [i \in 1..Len(s) |-> IF s[i] = "_" THEN " " ELSE s[i]]

\* s.endsWith(suffix)
endsWith(s, suffix) ==
    /\ Len(s) >= Len(suffix)
    /\ SubSeq(s, Len(s) - Len(suffix) + 1, Len(s)) = suffix

\* Position of the last occurrence of character c in s, 0 when there is none.
LastIndexOf(s, c) ==
    IF \E i \in 1..Len(s) : s[i] = c
    THEN CHOOSE i \in 1..Len(s) : s[i] = c /\ \A j \in (i+1)..Len(s) : s[j] # c
    ELSE 0

\* s.split(c).pop(): what follows the last c, or all of s when c is absent.
LastSegment(s, c) == SubSeq(s, LastIndexOf(s, c) + 1, Len(s))

\* path.basename(p)
basename(p) == LastSegment(p, "/")

\* Decimal digits of n, zero-padded to width w (how a producer writes a date).
RECURSIVE Pad(_, _)
Pad(n, w) == IF w = 0 THEN <<>> ELSE Pad(n \div 10, w - 1) \o <<Digits[(n % 10) + 1]>>

\* Value of a string of decimal digits.
RECURSIVE DecimalValue(_)
DecimalValue(s) ==
    IF s = <<>> THEN 0
    ELSE 10 * DecimalValue(SubSeq(s, 1, Len(s) - 1)) + DigitVal(s[Len(s)])

---------------------------------------------------------------------------
(* Dates                                                                   *)

HoursPerDay == 24

\* Days from 1970-01-01 to the first of month m of year y, plus d - 1
\* (ECMAScript MakeDay: a day number past the end of the month rolls over).
MakeDay(y, m, d) ==
    LET yy  == IF m <= 2 THEN y - 1 ELSE y
        era == yy \div 400
        yoe == yy - era * 400
        mp  == (m + 9) % 12
        doy == (153 * mp + 2) \div 5 + d - 1
        doe == yoe * 365 + yoe \div 4 - yoe \div 100 + doy
    IN  era * 146097 + doe - 719468

\* /^(\d{4}-\d{2}-\d{2})/ matches at the start of s
DatePatternMatches(s) ==
    /\ Len(s) >= 10
    /\ \A i \in {1, 2, 3, 4, 6, 7, 9, 10} : IsDigit(s[i])
    /\ s[5] = "-"
    /\ s[8] = "-"

\* new Date("YYYY-MM-DD") in V8: a date-only ISO string is UTC midnight of
\* that date; a month outside 1..12 or a day outside 1..31 is an Invalid Date.
NewDate(s) ==
    LET y == DecimalValue(SubSeq(s, 1, 4))
        m == DecimalValue(SubSeq(s, 6, 7))
        d == DecimalValue(SubSeq(s, 9, 10))
    IN  IF m \in 1..12 /\ d \in 1..31
        THEN DateAt(MakeDay(y, m, d) * HoursPerDay)
        ELSE InvalidDate

\* now.setHours(0, 0, 0, 0): the instant of local midnight of the local day
\* that contains instant t.
LocalMidnight(t, off) == ((t + off) \div HoursPerDay) * HoursPerDay - off

\* The local calendar day (days since 1970-01-01) that contains instant t.
LocalDay(t, off) == (t + off) \div HoursPerDay

---------------------------------------------------------------------------
(* Supported formats, filename parsing                                     *)

\* SUPPORTED_FORMATS: extension -> content type
SUPPORTED_FORMATS ==
    [ext \in {<<"m", "p", "3">>, <<"m", "4", "a">>, <<"o", "p", "u", "s">>,
              <<"o", "g", "g">>, <<"m", "k", "a">>} |->
        CASE ext = <<"m", "p", "3">>      -> "audio/mpeg"
          [] ext = <<"m", "4", "a">>      -> "audio/mp4"
          [] ext = <<"o", "p", "u", "s">> -> "audio/opus"
          [] ext = <<"o", "g", "g">>      -> "audio/ogg"
          [] ext = <<"m", "k", "a">>      -> "audio/x-matroska"]

\* filename.toLowerCase().split('.').pop()
ExtensionOf(filename) == LastSegment(toLowerCase(filename), ".")

\* SUPPORTED_FORMATS.hasOwnProperty(ext)
IsSupported(filename) == ExtensionOf(filename) \in DOMAIN SUPPORTED_FORMATS

\* filename.replace(/^\d{4}-\d{2}-\d{2}_/, '')
StripDatePrefix(filename) ==
    IF DatePatternMatches(filename) /\ Len(filename) >= 11 /\ filename[11] = "_"
    THEN SubSeq(filename, 12, Len(filename))
    ELSE filename

\* s.replace(/\.mp3$/, '')
StripMp3(s) ==
    IF endsWith(s, <<".", "m", "p", "3">>) THEN SubSeq(s, 1, Len(s) - 4) ELSE s

\* defaultTitle of getEpisodeDetails
DefaultTitle(filename) == UnderscoresToSpaces(StripMp3(StripDatePrefix(filename)))

\* releaseDate of getEpisodeDetails: dateMatch ? new Date(dateMatch[1]) : null
ReleaseDateOf(filename) ==
    IF DatePatternMatches(filename) THEN NewDate(SubSeq(filename, 1, 10)) ELSE Null

---------------------------------------------------------------------------
(* Durations                                                               *)

\* s.split(c)
RECURSIVE Split(_, _)
Split(s, c) ==
    IF \E i \in 1..Len(s) : s[i] = c
    THEN LET i == CHOOSE k \in 1..Len(s) : s[k] = c /\ \A j \in 1..(k-1) : s[j] # c
         IN  <<SubSeq(s, 1, i - 1)>> \o Split(SubSeq(s, i + 1, Len(s)), c)
    ELSE <<s>>

\* Number(s) on a string of digits and letters: the empty string is 0, a
\* string of decimal digits is its value, anything else is NaN.
ToNumber(s) ==
    IF \A i \in 1..Len(s) : IsDigit(s[i]) THEN Num(DecimalValue(s)) ELSE NaN

\* a * b and a + b on JavaScript numbers: NaN is contagious.
Times(a, b) == IF a.t = "nan" \/ b.t = "nan" THEN NaN ELSE Num(a.v * b.v)

Plus(a, b) == IF a.t = "nan" \/ b.t = "nan" THEN NaN ELSE Num(a.v + b.v)

SecondsPerMinute == 60
SecondsPerHour == 3600

TypeError == [t |-> "throw", v |-> 0]

\* parseDuration(duration): seconds, null, NaN, or a TypeError when a truthy
\* value that is not a string has no split method.
parseDuration(duration) ==
    IF ~Truthy(duration) THEN Null
    ELSE IF duration.t # "string" THEN TypeError
    ELSE LET parts == [i \in 1..Len(Split(duration.v, ":")) |->
                          ToNumber(Split(duration.v, ":")[i])]
         IN  IF Len(parts) = 2
             THEN Plus(Times(parts[1], Num(SecondsPerMinute)), parts[2])
             ELSE IF Len(parts) = 3
             THEN Plus(Plus(Times(parts[1], Num(SecondsPerHour)),
                            Times(parts[2], Num(SecondsPerMinute))), parts[3])
             ELSE Null

---------------------------------------------------------------------------
(* Metadata                                                                *)

Object(fields) == [t |-> "object", v |-> fields]

EpisodeFields ==
    {"title", "description", "author", "duration", "explicit", "categories",
     "keywords", "image"}

\* {} as a per-episode metadata entry: every field is absent.
EmptyEntry == Object([k \in EpisodeFields |-> Undefined])

\* { episodes: {}, podcast: {} }
EmptyMetadata ==
    [t |-> "object", episodes |-> Object(<<>>), podcast |-> Object(<<>>)]

\* loadMetadata(): the parsed document, or the empty metadata when the file
\* is missing, unreadable or not parsable, or parses to a falsy value.
loadMetadata ==
    IF metadataFile.state # "parsed" THEN EmptyMetadata
    ELSE IF ~Truthy(metadataFile.doc) THEN EmptyMetadata
    ELSE metadataFile.doc

\* An object that refers to itself (a YAML alias to an enclosing anchor)
Circular == [t |-> "circular", v |-> 0]

\* JSON.stringify(x) succeeds: it throws a TypeError on a circular structure
Serializable(x) == x.t # "circular"

\* obj[key] for a property key
Get(obj, key) ==
    CASE obj.t \in {"undefined", "null"} -> TypeError
      [] obj.t = "object" -> IF key \in DOMAIN obj.v THEN obj.v[key] ELSE Undefined
      [] OTHER -> Undefined

\* `Episode: ${defaultTitle}`
EpisodePrefix == <<"E", "p", "i", "s", "o", "d", "e", ":", " ">>

\* getEpisodeDetails(filename, metadata): the resolved episode, or the
\* TypeError that the lookup or parseDuration throws.
getEpisodeDetails(filename, metadata) ==
    LET defaultTitle == DefaultTitle(filename)
        found == Get(metadata.episodes, filename)
    IN  IF found.t = "throw" THEN TypeError
        ELSE LET episodeMetadata == OrElse(found, EmptyEntry)
                 duration == parseDuration(Get(episodeMetadata, "duration"))
             IN  IF duration.t = "throw" THEN TypeError
                 ELSE [t |-> "episode",
                       filename |-> filename,
                       releaseDate |-> ReleaseDateOf(filename),
                       title |-> OrElse(Get(episodeMetadata, "title"),
                                        Str(defaultTitle)),
                       description |-> OrElse(Get(episodeMetadata, "description"),
                                              Str(EpisodePrefix \o defaultTitle)),
                       author |-> Get(episodeMetadata, "author"),
                       duration |-> duration,
                       explicit |-> Get(episodeMetadata, "explicit"),
                       categories |-> OrElse(Get(episodeMetadata, "categories"),
                                             List(<<>>)),
                       keywords |-> OrElse(Get(episodeMetadata, "keywords"),
                                           List(<<>>)),
                       image |-> Get(episodeMetadata, "image")]

---------------------------------------------------------------------------
(* Release gate                                                            *)

shouldReleaseEpisodeFlipped(releaseDate) ==
    IF ~Truthy(releaseDate) THEN TRUE
    ELSE /\ releaseDate.t = "date"
         /\ releaseDate.v >= LocalMidnight(now, tzOffset)

\* shouldReleaseEpisode(releaseDate): no date is always released; otherwise
\* the date (an instant, UTC midnight) is compared with local midnight of
\* today.  A comparison with an Invalid Date is false.
shouldReleaseEpisode(releaseDate) ==
    IF ~Truthy(releaseDate) THEN TRUE
    ELSE /\ releaseDate.t = "date"
         /\ releaseDate.v <= LocalMidnight(now, tzOffset)

---------------------------------------------------------------------------
(* Hosted assets (.glitch-assets)                                          *)

\* isGlitch(): !!process.env.PROJECT_DOMAIN
isGlitch == projectDomain

\* A manifest line is blank, text that JSON.parse rejects, or a JSON object
\* with the fields name, url, size, uuid, deleted (Undefined when absent).
BlankLine == [t |-> "blank", v |-> 0]
BadLine   == [t |-> "garbage", v |-> 0]

NonBlank(lines) == SelectSeq(lines, LAMBDA l : l.t # "blank")

\* content.split('\n').filter(..).map(l => JSON.parse(..)).find(a =>
\*   a.uuid === uuid && a.name): throws when any line is not JSON.
FindOriginal(lines, uuid) ==
    IF \E i \in 1..Len(lines) : lines[i].t = "garbage" THEN TypeError
    ELSE IF \E i \in 1..Len(lines) :
                lines[i].v.uuid = uuid /\ Truthy(lines[i].v.name)
    THEN lines[CHOOSE i \in 1..Len(lines) :
                  /\ lines[i].v.uuid = uuid /\ Truthy(lines[i].v.name)
                  /\ \A j \in 1..(i-1) :
                        ~(lines[j].v.uuid = uuid /\ Truthy(lines[j].v.name))]
    ELSE Undefined

\* First pass of getGlitchAssets: the names of the deleted assets.  A line
\* whose processing throws is skipped.
DeletedFiles(lines) ==
    {FindOriginal(lines, lines[i].v.uuid).v.name.v :
        i \in {k \in 1..Len(lines) :
                 /\ lines[k].t = "object"
                 /\ Truthy(lines[k].v.deleted)
                 /\ Truthy(lines[k].v.uuid)
                 /\ FindOriginal(lines, lines[k].v.uuid).t = "object"}}

\* assets.set(name, info) on an insertion-ordered Map
MapSet(m, name, info) ==
    IF \E i \in 1..Len(m) : m[i].name = name
    THEN [i \in 1..Len(m) |->
            IF m[i].name = name THEN [name |-> name, info |-> info] ELSE m[i]]
    ELSE Append(m, [name |-> name, info |-> info])

\* Second pass of getGlitchAssets: the live assets, in insertion order.
RECURSIVE CollectAssets(_, _, _)
CollectAssets(lines, deleted, acc) ==
    IF lines = <<>> THEN acc
    ELSE LET l == Head(lines)
             keep == /\ l.t = "object"
                     /\ Truthy(l.v.name) /\ Truthy(l.v.url) /\ ~Truthy(l.v.deleted)
                     /\ l.v.name.v \notin deleted
         IN  CollectAssets(Tail(lines), deleted,
                 IF keep
                 THEN MapSet(acc, l.v.name.v,
                             [url |-> l.v.url, size |-> l.v.size, uuid |-> l.v.uuid])
                 ELSE acc)

\* getGlitchAssets(): { assets, deletedFiles }
getGlitchAssets ==
    IF ~isGlitch \/ ~glitchAssets.readable
    THEN [assets |-> <<>>, deletedFiles |-> {}]
    ELSE LET lines == NonBlank(glitchAssets.lines)
             deleted == DeletedFiles(lines)
         IN  [assets |-> CollectAssets(lines, deleted, <<>>),
              deletedFiles |-> deleted]

\* assets.get(filename)
AssetGet(assets, filename) ==
    IF \E i \in 1..Len(assets) : assets[i].name = filename
    THEN Object((CHOOSE a \in {assets[i] : i \in 1..Len(assets)} :
                    a.name = filename).info)
    ELSE Undefined

\* Array.from(assets.keys())
AssetKeys(assets) == [i \in 1..Len(assets) |-> assets[i].name]

---------------------------------------------------------------------------
(* Sorting                                                                 *)

\* (e.releaseDate || 0) as the number the comparator subtracts
SortKey(e) ==
    IF e.releaseDate.t = "date" THEN Num(e.releaseDate.v)
    ELSE IF e.releaseDate.t = "invalid-date" THEN NaN
    ELSE Num(0)

Orderings(n) ==
    {p \in [1..n -> 1..n] : \A i, j \in 1..n : i # j => p[i] # p[j]}

\* list.sort((a, b) => (b.releaseDate || 0) - (a.releaseDate || 0)): the
\* stable descending order.  With an Invalid Date the comparator returns NaN
\* and is not consistent, and the order is implementation-defined.
SortOutcomes(list) ==
    LET n == Len(list)
        ok(p) == \A i, j \in 1..n : i < j =>
                    \/ SortKey(list[p[i]]).v > SortKey(list[p[j]]).v
                    \/ /\ SortKey(list[p[i]]).v = SortKey(list[p[j]]).v
                       /\ p[i] < p[j]
        chosen == IF \E i \in 1..n : SortKey(list[i]).t = "nan"
                  THEN Orderings(n)
                  ELSE {p \in Orderings(n) : ok(p)}
    IN  {[i \in 1..n |-> list[p[i]]] : p \in chosen}

---------------------------------------------------------------------------
(* HTTP handlers                                                           *)

\* process.env.SECRET_TOKEN
SECRET_TOKEN == <<"s", "e", "c">>

\* What a handler has sent: status, content type, the error of a JSON error
\* body, the Location of a redirect, the name of the file whose bytes are
\* streamed, the items of the feed, the podcast and episodes of the listing,
\* the metadata of the debug dump, the stack trace a body carries, and the
\* I/O and logging done to produce it.
NoResponse ==
    [status |-> 0, type |-> "", error |-> "", location |-> Undefined,
     stream |-> <<>>, items |-> <<>>, podcast |-> Undefined, episodes |-> <<>>,
     metadata |-> Undefined, stack |-> "", io |-> <<>>]

JsonError(status, message, io) ==
    [NoResponse EXCEPT !.status = status, !.type = "application/json",
                       !.error = message, !.io = io]

checkSecretUnlessAbsent(token) == token.t = "undefined" \/ token = Str(SECRET_TOKEN)

\* checkSecret: token !== SECRET_TOKEN answers 403
checkSecret(token) == token = Str(SECRET_TOKEN)

Forbidden == JsonError(403, "Invalid token", <<>>)

ServerError(io) == JsonError(500, "Server error", io)

\* The process after an uncaught exception: Node prints the error and exits,
\* no response is sent on any open connection.
ProcessExit(io) ==
    [NoResponse EXCEPT !.error = "uncaught exception: process exits", !.io = io]

\* fsPromises.access / stat / readdir on AUDIO_DIR.  A directory entry is a
\* file or a link whose target is missing (dangling): readdir lists both,
\* access, stat and open fail with ENOENT on the link.
Exists(dir, filename) == \E f \in dir : f.name = filename /\ ~f.dangling

StatSize(dir, filename) ==
    (CHOOSE f \in dir : f.name = filename /\ ~f.dangling).size

\* readdir enumerates the names of the directory in no specified order.
readdir(dir) ==
    LET names == {f.name : f \in dir}
        n == Cardinality(names)
    IN  {l \in [1..n -> names] : \A i, j \in 1..n : i # j => l[i] # l[j]}

IoMetadata == <<"readFile metadata.yml">>
IoAssets   == IF isGlitch THEN <<"readFile .glitch-assets">> ELSE <<>>

\* What FileType.fromFile(filePath) does: it throws, it recognises nothing
\* (undefined), or it reports the MIME type of the content.
SniffThrows  == "throw"
SniffNothing == "none"

\* mimeTypeMap of getAudioFileType
mimeTypeMap ==
    [mime \in {"audio/mpeg", "audio/mp4", "audio/opus", "audio/ogg",
               "audio/x-matroska"} |->
        CASE mime = "audio/mpeg" -> <<"m", "p", "3">>
          [] mime = "audio/mp4"  -> <<"m", "4", "a">>
          [] OTHER               -> <<"o", "p", "u", "s">>]

\* getAudioFileType(filePath): the type mapped from the sniffed MIME type,
\* undefined for a MIME type the map lacks, null when nothing is recognised
\* or the sniff throws.
getAudioFileType(sniff) ==
    IF sniff \in {SniffThrows, SniffNothing} THEN Null
    ELSE IF sniff \in DOMAIN mimeTypeMap THEN Str(mimeTypeMap[sniff])
    ELSE Undefined

\* actualType && actualType !== expectedType && actualType !== 'opus'
Mismatch(actualType, expectedType) ==
    /\ Truthy(actualType)
    /\ actualType # Str(expectedType)
    /\ actualType # Str(<<"o", "p", "u", "s">>)

\* The end of the /audio handler, past the gate: sniff the content, warn on
\* a mismatch, set the content type of the extension and pipe the file.
\* present: the file is still there.  Without it the sniff throws (and is
\* logged), and the read stream emits an 'error' event that nothing
\* listens to, which Node raises as an uncaught exception.
StreamFile(filename, sniff, present, io) ==
    LET extension  == ExtensionOf(filename)
        outcome    == IF present THEN sniff ELSE SniffThrows
        actualType == getAudioFileType(outcome)
        log == (IF outcome = SniffThrows
                THEN <<"console.error detecting file type">> ELSE <<>>)
               \o (IF Mismatch(actualType, extension)
                   THEN <<"console.warn mismatched type">> ELSE <<>>)
        done == io \o <<"FileType.fromFile">> \o log \o <<"createReadStream">>
    IN  IF ~present THEN ProcessExit(done)
        ELSE [NoResponse EXCEPT
                !.status = 200,
                !.type = SUPPORTED_FORMATS[extension],
                !.stream = filename,
                !.io = done]

\* app.use('/audio', checkSecret, ...): dir is the directory when the handler
\* checks access, later the directory when it sniffs and opens the file.
AudioHandler(path, token, dir, later, sniff) ==
    IF ~checkSecret(token) THEN Forbidden
    ELSE
    LET metadata  == loadMetadata
        filename  == basename(path)
        glitch    == getGlitchAssets
        assetInfo == AssetGet(glitch.assets, filename)
        io1       == IoMetadata \o IoAssets
        io2       == io1 \o <<"access">>
        episode   == getEpisodeDetails(filename, metadata)
    IN  IF isGlitch /\ filename \in glitch.deletedFiles
        THEN JsonError(404, "File not found", io1)
        ELSE IF isGlitch /\ assetInfo.t = "object" /\ Truthy(assetInfo.v.url)
        THEN [NoResponse EXCEPT !.status = 302, !.location = assetInfo.v.url,
                                !.io = io1]
        ELSE IF ~Exists(dir, filename)
        THEN JsonError(404, "File not found", io2)
        ELSE IF ~IsSupported(filename)
        THEN JsonError(400, "Unsupported file format", io2)
        ELSE IF episode.t = "throw"
        THEN ServerError(io2)
        ELSE IF ~shouldReleaseEpisode(episode.releaseDate)
        THEN JsonError(404, "Episode not yet available", io2)
        ELSE StreamFile(filename, sniff, Exists(later, filename), io2)

\* The candidate names of /feed.xml, before resolution
FeedCandidates(listing, glitch) ==
    IF isGlitch
    THEN SelectSeq(AssetKeys(glitch.assets),
                   LAMBDA f : IsSupported(f) /\ f \notin glitch.deletedFiles)
    ELSE SelectSeq(listing, LAMBDA f : IsSupported(f))

\* The candidate names of /episodes, before resolution
ListingCandidates(listing, glitch) ==
    IF isGlitch
    THEN SelectSeq(AssetKeys(glitch.assets),
                   LAMBDA f : IsSupported(f) /\ f \notin glitch.deletedFiles)
    ELSE SelectSeq(listing, LAMBDA f : endsWith(f, <<".", "m", "p", "3">>))

Resolve(names, metadata) ==
    [i \in 1..Len(names) |-> getEpisodeDetails(names[i], metadata)]

AnyThrows(episodes) == \E i \in 1..Len(episodes) : episodes[i].t = "throw"

\* The URL of a locally served file: .../audio/<filename>?token=<SECRET_TOKEN>
LocalUrl(filename) == [t |-> "local-url", v |-> filename]

\* One feed.addItem(...) of the loop of /feed.xml
FeedItem(episode, dir, glitch) ==
    LET assetInfo == AssetGet(glitch.assets, episode.filename)
        audioUrl  == IF isGlitch THEN assetInfo.v.url
                     ELSE LocalUrl(episode.filename)
        fileSize  == IF isGlitch THEN assetInfo.v.size
                     ELSE Num(StatSize(dir, episode.filename))
    IN  [filename |-> episode.filename,
         title |-> episode.title,
         description |-> episode.description,
         url |-> audioUrl,
         date |-> OrElse(episode.releaseDate, DateAt(now)),
         size |-> OrElse(fileSize, Num(0)),
         type |-> SUPPORTED_FORMATS[ExtensionOf(episode.filename)],
         itunesAuthor |-> episode.author,
         itunesDuration |-> episode.duration,
         itunesExplicit |-> episode.explicit,
         itunesImage |-> episode.image,
         itunesKeywords |-> episode.keywords]

\* The episodes of the sorted list that the loop of /feed.xml adds
Included(sorted, glitch) ==
    SelectSeq(sorted, LAMBDA e :
        /\ shouldReleaseEpisode(e.releaseDate)
        /\ isGlitch =>
              LET assetInfo == AssetGet(glitch.assets, e.filename)
              IN  assetInfo.t = "object" /\ Truthy(assetInfo.v.url))

\* fsPromises.stat throws for an episode the loop of /feed.xml adds
StatThrows(sorted, dir, glitch) ==
    /\ ~isGlitch
    /\ \E i \in 1..Len(Included(sorted, glitch)) :
          ~Exists(dir, Included(sorted, glitch)[i].filename)

\* /feed.xml past the token check: listing is what readdir returned, dir the
\* directory when the loop stats the files.
FeedFrom(listing, dir) ==
    LET metadata == loadMetadata
        glitch   == getGlitchAssets
        io1      == IoMetadata \o IoAssets
        io2      == IF isGlitch THEN io1 ELSE io1 \o <<"readdir">>
        episodes == Resolve(FeedCandidates(listing, glitch), metadata)
    IN  IF AnyThrows(episodes) THEN {ServerError(io2)}
        ELSE {IF StatThrows(sorted, dir, glitch)
              THEN ServerError(io2 \o <<"stat">>)
              ELSE
              [NoResponse EXCEPT
                 !.status = 200,
                 !.type = "application/xml",
                 !.podcast = OrElse(metadata.podcast, Object(<<>>)),
                 !.items = [i \in 1..Len(Included(sorted, glitch)) |->
                              FeedItem(Included(sorted, glitch)[i], dir, glitch)],
                 !.io = io2 \o [i \in 1..Len(Included(sorted, glitch)) |->
                                  IF isGlitch THEN "assets.get" ELSE "stat"]]
              : sorted \in SortOutcomes(episodes)}

\* app.get('/feed.xml', checkSecret, ...): the responses it can send
FeedHandler(token, dir) ==
    IF ~checkSecret(token) THEN {Forbidden}
    ELSE UNION {FeedFrom(listing, dir) : listing \in readdir(dir)}

\* /episodes past the token check, for one enumeration of the directory
EpisodesFrom(listing) ==
    LET metadata == loadMetadata
        glitch   == getGlitchAssets
        io1      == IoMetadata \o IoAssets
        io2      == IF isGlitch THEN io1 ELSE io1 \o <<"readdir">>
        episodes == Resolve(ListingCandidates(listing, glitch), metadata)
    IN  IF AnyThrows(episodes) \/ ~Serializable(metadata.podcast)
        THEN {ServerError(io2)}
        ELSE {[NoResponse EXCEPT
                 !.status = 200,
                 !.type = "application/json",
                 !.podcast = OrElse(metadata.podcast, Object(<<>>)),
                 !.episodes = sorted,
                 !.io = io2]
              : sorted \in SortOutcomes(episodes)}

\* app.get('/episodes', checkSecret, ...): the responses it can send
EpisodesHandler(token, dir) ==
    IF ~checkSecret(token) THEN {Forbidden}
    ELSE UNION {EpisodesFrom(listing) : listing \in readdir(dir)}

\* app.get('/debug/metadata', checkSecret, ...)
DebugHandler(token) ==
    IF ~checkSecret(token) THEN Forbidden
    ELSE IF ~Serializable(loadMetadata.podcast)
    THEN [NoResponse EXCEPT
            !.status = 500,
            !.type = "application/json",
            !.error = "Converting circular structure to JSON",
            !.stack = "TypeError: Converting circular structure to JSON at JSON.stringify",
            !.io = IoMetadata \o IoAssets \o <<"access metadata.yml">>]
    ELSE [NoResponse EXCEPT
            !.status = 200,
            !.type = "application/json",
            !.metadata = loadMetadata,
            !.io = IoMetadata \o IoAssets \o <<"access metadata.yml">>]

---------------------------------------------------------------------------
(* The environment the server runs in                                      *)

\* "YYYY-MM-DD" as a content producer writes it
DateText(y, m, d) == Pad(y, 4) \o <<"-">> \o Pad(m, 2) \o <<"-">> \o Pad(d, 2)

Mp3  == <<".", "m", "p", "3">>
M4a  == <<".", "m", "4", "a">>
Ogg  == <<".", "o", "g", "g">>
Txt  == <<".", "t", "x", "t">>

\* 2024-12-01_A_B.mp3, 2024-12-02_C.m4a, b.ogg, 2024-13-40_X.mp3, n.txt
FirstDay   == DateText(2024, 12, 1) \o <<"_", "A", "_", "B">> \o Mp3
SecondDay  == DateText(2024, 12, 2) \o <<"_", "C">> \o M4a
Bonus      == <<"b">> \o Ogg
BadDate    == DateText(2024, 13, 40) \o <<"_", "X">> \o Mp3
Notes      == <<"n">> \o Txt

File(name, size) == [name |-> name, size |-> size, dangling |-> FALSE]

\* A link in AUDIO_DIR whose target is gone
Dangling(name) == [name |-> name, size |-> 0, dangling |-> TRUE]

AudioFiles ==
    {File(FirstDay, 10), File(SecondDay, 20), File(Bonus, 30),
     File(BadDate, 40), File(Notes, 50)}

FileNames == {f.name : f \in AudioFiles}

MaxFiles == 2

\* The directories: up to MaxFiles files
Directories == {d \in SUBSET AudioFiles : Cardinality(d) <= MaxFiles}

Asset(name, url, size, uuid) ==
    Object([name |-> Str(name), url |-> Str(url), size |-> Num(size),
            uuid |-> Str(uuid), deleted |-> Undefined])

Deletion(uuid) ==
    Object([name |-> Undefined, url |-> Undefined, size |-> Undefined,
            uuid |-> Str(uuid), deleted |-> Bool(TRUE)])

ManifestLines ==
    {Asset(FirstDay, <<"u", "1">>, 10, <<"1">>),
     Asset(Bonus, <<"u", "3">>, 30, <<"3">>),
     Deletion(<<"1">>),
     BadLine}

MaxLines == 2

Manifests ==
    UNION {{l \in [1..n -> ManifestLines] : \A i, j \in 1..n : i # j => l[i] # l[j]}
           : n \in 0..MaxLines}

Entry(fields) ==
    Object([k \in EpisodeFields |->
              IF k \in DOMAIN fields THEN fields[k] ELSE Undefined])

FiveThirty == <<"5", ":", "3", "0">>

\* metadata.yml: absent, not parsable, or a document with podcast and episodes
MetadataFiles ==
    {[state |-> "missing", doc |-> Null],
     [state |-> "malformed", doc |-> Null],
     [state |-> "parsed",
      doc |-> [t |-> "object",
               podcast |-> Object([title |-> Str(<<"P">>)]),
               episodes |-> Object(
                  (FirstDay :> Entry([description |-> Str(<<"D">>),
                                      duration |-> Str(FiveThirty)])))]]}

TimeZones == {-5, 0, 2}

\* 2024-11-30T12:00Z
ClockStart == MakeDay(2024, 11, 30) * HoursPerDay + 12

\* The clock is observed every twelve hours.
TickHours == HoursPerDay \div 2
MaxTicks == 4

Tokens == {Undefined, Str(<<"x">>), Str(SECRET_TOKEN)}

\* What the sniff of a file's content can yield
Sniffs ==
    {SniffThrows, SniffNothing, "audio/mpeg", "audio/mp4", "audio/opus",
     "audio/ogg", "audio/x-matroska", "image/png"}

AudioPaths == {<<"/">> \o f : f \in FileNames}

NoRequest == [endpoint |-> "", path |-> <<>>, token |-> Undefined]

Env == <<projectDomain, tzOffset, audioDir, glitchAssets, metadataFile>>

---------------------------------------------------------------------------
(* The server                                                              *)

Init ==
    /\ projectDomain \in BOOLEAN
    /\ tzOffset \in TimeZones
    /\ now = ClockStart
    /\ IF projectDomain
       THEN /\ glitchAssets \in {[readable |-> TRUE, lines |-> l] : l \in Manifests}
            /\ audioDir \in {{}, {File(SecondDay, 20)}, {File(FirstDay, 10)}}
            /\ metadataFile \in {m \in MetadataFiles : m.state = "parsed"}
       ELSE /\ glitchAssets = [readable |-> FALSE, lines |-> <<>>]
            /\ audioDir \in Directories
            /\ metadataFile \in {m \in MetadataFiles : m.state # "malformed"}
    /\ req = NoRequest
    /\ res = NoResponse
    /\ released = {}

\* The exchanges are observed one at a time: a request is taken when no
\* exchange is open, and the clock moves between exchanges.
Idle == req = NoRequest

\* Time passes between two requests.
Tick ==
    /\ Idle
    /\ now < ClockStart + MaxTicks * TickHours
    /\ now' = now + TickHours
    /\ UNCHANGED <<Env, req, res, released>>

\* The response has been delivered: the exchange is over.
Complete ==
    /\ ~Idle
    /\ req' = NoRequest
    /\ res' = NoResponse
    /\ UNCHANGED <<Env, now, released>>

\* GET /audio/<filename>?token=...
GetAudio ==
    \E path \in AudioPaths, token \in Tokens, sniff \in Sniffs :
        /\ Idle
        /\ req' = [endpoint |-> "/audio", path |-> path, token |-> token]
        /\ res' = AudioHandler(path, token, audioDir, audioDir, sniff)
        /\ UNCHANGED <<Env, now, released>>

\* GET /feed.xml?token=...
GetFeed ==
    \E token \in Tokens :
        \E r \in FeedHandler(token, audioDir) :
            /\ Idle
            /\ req' = [endpoint |-> "/feed.xml", path |-> <<>>, token |-> token]
            /\ res' = r
            /\ UNCHANGED <<Env, now, released>>

\* GET /episodes?token=...
GetEpisodes ==
    \E token \in Tokens :
        \E r \in EpisodesHandler(token, audioDir) :
            /\ Idle
            /\ req' = [endpoint |-> "/episodes", path |-> <<>>, token |-> token]
            /\ res' = r
            /\ UNCHANGED <<Env, now, released>>

\* GET /debug/metadata?token=...
GetDebug ==
    \E token \in Tokens :
        /\ Idle
        /\ req' = [endpoint |-> "/debug/metadata", path |-> <<>>, token |-> token]
        /\ res' = DebugHandler(token)
        /\ UNCHANGED <<Env, now, released>>

Next == Tick \/ Complete \/ GetAudio \/ GetFeed \/ GetEpisodes \/ GetDebug

Spec == Init /\ [][Next]_vars

---------------------------------------------------------------------------
(* Properties of the endpoints                                             *)

GoodToken == req.token = Str(SECRET_TOKEN)

\* The name a request to /audio asks for
Requested == basename(req.path)

\* The calendar day (days since 1970-01-01) written in a valid date prefix
HasValidDate(f) == DatePatternMatches(f) /\ ReleaseDateOf(f).t = "date"

PrefixDay(f) == ReleaseDateOf(f).v \div HoursPerDay

\* Today, as the server's local calendar shows it
Today == LocalDay(now, tzOffset)

ItemNames(r) == {r.items[i].filename : i \in 1..Len(r.items)}

EpisodeNames(r) == {r.episodes[i].filename : i \in 1..Len(r.episodes)}

\* The names the configured source offers: hosted assets or local files
SourceNames ==
    IF isGlitch
    THEN {f \in {getGlitchAssets.assets[i].name :
                    i \in 1..Len(getGlitchAssets.assets)} :
             f \notin getGlitchAssets.deletedFiles}
    ELSE {f.name : f \in audioDir}

\* C1: neither the /feed.xml response nor the /episodes response contains an
\* episode whose release date is after today, in the local and in the
\* hosted configuration.
C1_NoUnreleasedEpisodeListed ==
    (req.endpoint \in {"/feed.xml", "/episodes"} /\ res.status = 200) =>
        \A f \in ItemNames(res) \cup EpisodeNames(res) :
            HasValidDate(f) => PrefixDay(f) <= Today

\* The part of C1 about the feed alone (the listing is what breaks C1).
C1_NoUnreleasedEpisodeInFeed ==
    (req.endpoint = "/feed.xml" /\ res.status = 200) =>
        \A f \in ItemNames(res) : HasValidDate(f) => PrefixDay(f) <= Today

\* C2: GET /audio/<filename> with the correct token, for a filename whose
\* release date is after today, answers 404 and produces neither audio bytes
\* nor a redirect to a hosted URL.
C2_FutureAudioIsNotFound ==
    (/\ req.endpoint = "/audio"
     /\ GoodToken
     /\ HasValidDate(Requested)
     /\ PrefixDay(Requested) > Today) =>
        /\ res.status = 404
        /\ res.stream = <<>>
        /\ res.location = Undefined

\* C3: with the correct token, the /audio response (status and body) for a
\* file that exists but is not yet released is the response the same
\* request gets when the file does not exist.
C3_EmbargoedLooksMissing ==
    (/\ req.endpoint = "/audio"
     /\ GoodToken
     /\ ~isGlitch
     /\ Exists(audioDir, Requested)
     /\ IsSupported(Requested)
     /\ ~shouldReleaseEpisode(ReleaseDateOf(Requested))) =>
        LET without == {f \in audioDir : f.name # Requested}
            missing == AudioHandler(req.path, req.token, without, without,
                                    SniffNothing)
        IN  /\ res.status = missing.status
            /\ res.error = missing.error

\* C4: a request to /feed.xml, /episodes, /audio/<filename> or
\* /debug/metadata whose token is absent or differs from the secret gets the
\* same 403 response whatever files, assets and metadata exist, before any
\* read, and the response carries no episode data.
C4_BadTokenIsForbidden ==
    (req.endpoint # "" /\ ~GoodToken) =>
        /\ res = Forbidden
        /\ res.status = 403
        /\ res.io = <<>>
        /\ res.items = <<>> /\ res.episodes = <<>>
        /\ res.metadata = Undefined /\ res.podcast = Undefined
        /\ res.stream = <<>> /\ res.location = Undefined

C4_Witness ==
    /\ req.endpoint \in {"/feed.xml", "/audio"}
    /\ req.token = Str(<<"x">>)
    /\ \E f \in audioDir : f.name = Bonus
    /\ req.endpoint = "/audio" => Requested = Bonus
    /\ res.status = 403

\* C6: a file without a date prefix and with a supported extension appears
\* in the feed and in the listing and is served by /audio at every date.
C6_UndatedAlwaysAvailable ==
    \A f \in SourceNames :
        (~DatePatternMatches(f) /\ IsSupported(f) /\ GoodToken) =>
            /\ (req.endpoint = "/feed.xml" /\ res.status = 200) => f \in ItemNames(res)
            /\ (req.endpoint = "/episodes" /\ res.status = 200) => f \in EpisodeNames(res)
            /\ (req.endpoint = "/audio" /\ Requested = f) => res.status \in {200, 302}

\* The parts of C6 about the gate, the feed and /audio (the listing is what
\* breaks C6).
C6_UndatedInFeedAndServed ==
    \A f \in SourceNames :
        (~DatePatternMatches(f) /\ IsSupported(f) /\ GoodToken) =>
            /\ shouldReleaseEpisode(ReleaseDateOf(f))
            /\ (req.endpoint = "/feed.xml" /\ res.status = 200) => f \in ItemNames(res)
            /\ (req.endpoint = "/audio" /\ Requested = f) => res.status \in {200, 302}

\* The names of the source whose extension is a supported audio type
SupportedNames == {f \in SourceNames : IsSupported(f)}

\* C13: /feed.xml and /episodes admit the same candidate files, in both
\* configurations: a file participates iff its extension is one of mp3,
\* m4a, opus, ogg, mka; other files are left out without an error.
C13_SameCandidateFiles ==
    (GoodToken /\ req.endpoint \in {"/feed.xml", "/episodes"}) =>
        /\ res.status = 200
        /\ req.endpoint = "/episodes" => EpisodeNames(res) = SupportedNames
        /\ req.endpoint = "/feed.xml" =>
              ItemNames(res) =
                 {f \in SupportedNames : shouldReleaseEpisode(ReleaseDateOf(f))}

\* What holds of C13: the feed in both configurations, and the listing of
\* the hosted configuration, admit exactly the supported names.
C13_FeedAdmitsSupported ==
    (/\ GoodToken
     /\ \/ req.endpoint = "/feed.xml"
        \/ req.endpoint = "/episodes" /\ isGlitch) =>
        /\ res.status = 200
        /\ req.endpoint = "/episodes" => EpisodeNames(res) = SupportedNames
        /\ req.endpoint = "/feed.xml" =>
              ItemNames(res) =
                 {f \in SupportedNames : shouldReleaseEpisode(ReleaseDateOf(f))}

---------------------------------------------------------------------------
(* The release gate on its own: one file, every hour, every time zone      *)

\* A call of a function of the server: req.path carries its string argument
Call(function, argument) ==
    [endpoint |-> function, path |-> argument, token |-> Undefined]

GateFiles == {FirstDay, SecondDay, Bonus, BadDate}

\* UTC-12 .. UTC+14
GateTimeZones == -12..14

\* 2024-11-30T00:00Z
GateClockStart == MakeDay(2024, 11, 30) * HoursPerDay

MaxGateHours == 72

InitGate ==
    /\ projectDomain = FALSE
    /\ tzOffset \in GateTimeZones
    /\ now = GateClockStart
    /\ audioDir = {}
    /\ glitchAssets = [readable |-> FALSE, lines |-> <<>>]
    /\ metadataFile = [state |-> "missing", doc |-> Null]
    /\ req \in {Call("shouldReleaseEpisode", f) : f \in GateFiles}
    /\ res = Undefined
    /\ released = {}

\* An hour passes.
GateTick ==
    /\ now < GateClockStart + MaxGateHours
    /\ now' = now + 1
    /\ res' = Undefined
    /\ UNCHANGED <<Env, req, released>>

\* The gate as /feed.xml and /audio apply it to a file:
\* shouldReleaseEpisode(getEpisodeDetails(filename, metadata).releaseDate)
ApplyGate ==
    /\ res' = Bool(shouldReleaseEpisode(
                      getEpisodeDetails(req.path, loadMetadata).releaseDate))
    /\ released' = IF res'.v THEN released \cup {req.path} ELSE released
    /\ UNCHANGED <<Env, now, req>>

NextGate == GateTick \/ ApplyGate

SpecGate == InitGate /\ [][NextGate]_vars

\* C5: for a filename with a valid YYYY-MM-DD prefix, at every instant and
\* in every time zone of the server, the gate is true iff the local calendar
\* date is on or after the date of the prefix.
C5_ReleasedFromLocalMidnight ==
    (res.t = "boolean" /\ HasValidDate(req.path)) =>
        (res.v <=> PrefixDay(req.path) <= Today)

\* The gate never opens before local midnight of the release day (what is
\* left of C5 in every time zone), and opens exactly then west of Greenwich.
C5_NeverEarly ==
    (res.t = "boolean" /\ HasValidDate(req.path)) =>
        /\ res.v => PrefixDay(req.path) <= Today
        /\ tzOffset <= 0 => (res.v <=> PrefixDay(req.path) <= Today)

---------------------------------------------------------------------------
(* Episode resolution on its own                                           *)

Opus == <<".", "o", "p", "u", "s">>
Mka  == <<".", "m", "k", "a">>

\* 2024-12-03_A.opus, 2024-12-04_A.mka, 2024-12-01_A.mp3_B.mp3,
\* 2024-12-01_A.mp3.ogg
ThirdDay   == DateText(2024, 12, 3) \o <<"_", "A">> \o Opus
FourthDay  == DateText(2024, 12, 4) \o <<"_", "A">> \o Mka
InnerMp3   == DateText(2024, 12, 1) \o <<"_", "A">> \o Mp3 \o <<"_", "B">> \o Mp3
InnerMp3Ogg == DateText(2024, 12, 1) \o <<"_", "A">> \o Mp3 \o Ogg

ResolveFiles ==
    {FirstDay, SecondDay, ThirdDay, FourthDay, InnerMp3, InnerMp3Ogg, Bonus,
     BadDate}

\* The metadata entries: each field not set (Undefined) or set to a value
Entries ==
    {Object(e) : e \in
        [title       : {Undefined, Str(<<"T">>), Str(<<>>)},
         description : {Undefined, Str(<<"D">>)},
         author      : {Undefined, Str(<<"A">>)},
         duration    : {Undefined, Str(FiveThirty), Str(<<"a", ":", "3", "0">>),
                        Num(330)},
         explicit    : {Undefined, Bool(FALSE)},
         categories  : {Undefined, List(<<"Holiday">>)},
         keywords    : {Undefined},
         image       : {Undefined, Str(<<"I">>)}]}

InitResolve ==
    /\ projectDomain = FALSE
    /\ tzOffset = 0
    /\ now = ClockStart
    /\ audioDir = {}
    /\ glitchAssets = [readable |-> FALSE, lines |-> <<>>]
    /\ req \in {Call("getEpisodeDetails", f) : f \in ResolveFiles}
    /\ \/ metadataFile = [state |-> "parsed", doc |-> EmptyMetadata]
       \/ \E e \in Entries :
             metadataFile =
                [state |-> "parsed",
                 doc |-> [t |-> "object", podcast |-> Object(<<>>),
                          episodes |-> Object((req.path :> e))]]
    /\ res = Undefined
    /\ released = {}

\* getEpisodeDetails(filename, metadata) as every endpoint calls it
ResolveEpisode ==
    /\ res = Undefined
    /\ res' = getEpisodeDetails(req.path, loadMetadata)
    /\ UNCHANGED <<Env, now, req, released>>

NextResolve == ResolveEpisode

SpecResolve == InitResolve /\ [][NextResolve]_vars

\* The metadata entry of the file being resolved ({} when there is none)
EntryOf(f) == OrElse(Get(loadMetadata.episodes, f), EmptyEntry)

\* <rest> of YYYY-MM-DD_<rest>.<ext>: what lies between the prefix and the
\* last dot
RestOf(f) == SubSeq(f, 12, LastIndexOf(f, ".") - 1)

\* C8: for a filename YYYY-MM-DD_<rest>.<ext> with a supported extension,
\* the release date is the date of the prefix and the default title is
\* <rest> with underscores replaced by spaces and the extension removed.
C8_DateAndTitleFromFilename ==
    (/\ res.t = "episode"
     /\ HasValidDate(req.path) /\ req.path[11] = "_"
     /\ LastSegment(req.path, ".") \in DOMAIN SUPPORTED_FORMATS
     /\ ~Truthy(EntryOf(req.path).v.title)) =>
        /\ res.releaseDate =
              DateAt(MakeDay(DecimalValue(SubSeq(req.path, 1, 4)),
                             DecimalValue(SubSeq(req.path, 6, 7)),
                             DecimalValue(SubSeq(req.path, 9, 10))) * HoursPerDay)
        /\ res.title = Str(UnderscoresToSpaces(RestOf(req.path)))

\* What C8 says of an .mp3 name, the one extension the code removes.
C8_Mp3DateAndTitle ==
    (/\ res.t = "episode"
     /\ HasValidDate(req.path) /\ req.path[11] = "_"
     /\ LastSegment(req.path, ".") = <<"m", "p", "3">>
     /\ ~Truthy(EntryOf(req.path).v.title)) =>
        /\ PrefixDay(req.path) * HoursPerDay = res.releaseDate.v
        /\ res.title = Str(UnderscoresToSpaces(RestOf(req.path)))

\* The value C9 expects for a field: the metadata value when the entry sets
\* the field, otherwise the default.
Expected(f, field, default) ==
    IF EntryOf(f).v[field] # Undefined THEN EntryOf(f).v[field] ELSE default

\* C9: field by field, the resolved value is the metadata value when the
\* entry sets the field and the default (title from the filename,
\* 'Episode: <title>', null or the empty list) when it does not,
\* independently of the other fields.
C9_MetadataOverridesFieldByField ==
    (req.endpoint = "getEpisodeDetails" /\ res # Undefined) =>
        /\ res.t = "episode"
        /\ res.title = Expected(req.path, "title", Str(DefaultTitle(req.path)))
        /\ res.description =
              Expected(req.path, "description",
                       Str(EpisodePrefix \o DefaultTitle(req.path)))
        /\ res.author = Expected(req.path, "author", Undefined)
        /\ res.explicit = Expected(req.path, "explicit", Undefined)
        /\ res.categories = Expected(req.path, "categories", List(<<>>))
        /\ res.keywords = Expected(req.path, "keywords", List(<<>>))
        /\ res.image = Expected(req.path, "image", Undefined)
        /\ EntryOf(req.path).v.duration = Undefined => res.duration = Null
        /\ EntryOf(req.path).v.duration = Str(FiveThirty) => res.duration = Num(330)

---------------------------------------------------------------------------
(* Duration parsing on its own                                             *)

DurationAlphabet == {"0", "3", "5", ":", "a"}

MaxDurationLen == 4

DurationStrings ==
    UNION {[1..n -> DurationAlphabet] : n \in 0..MaxDurationLen}

InitDuration ==
    /\ projectDomain = FALSE
    /\ tzOffset = 0
    /\ now = ClockStart
    /\ audioDir = {}
    /\ glitchAssets = [readable |-> FALSE, lines |-> <<>>]
    /\ metadataFile = [state |-> "missing", doc |-> Null]
    /\ req \in {Call("parseDuration", d) : d \in DurationStrings}
    /\ res = Undefined
    /\ released = {}

\* parseDuration(episodeMetadata.duration) on a string
ParseDuration ==
    /\ res = Undefined
    /\ res' = parseDuration(Str(req.path))
    /\ UNCHANGED <<Env, now, req, released>>

NextDuration == ParseDuration

SpecDuration == InitDuration /\ [][NextDuration]_vars

\* A duration M:SS or H:MM:SS: two or three segments, each a non-empty
\* string of decimal digits
WellFormedDuration(d) ==
    /\ Len(Split(d, ":")) \in {2, 3}
    /\ \A i \in 1..Len(Split(d, ":")) :
          /\ Split(d, ":")[i] # <<>>
          /\ \A k \in 1..Len(Split(d, ":")[i]) : IsDigit(Split(d, ":")[i][k])

\* 60*M + SS, or 3600*H + 60*MM + SS
ReferenceSeconds(d) ==
    LET p == Split(d, ":")
    IN  IF Len(p) = 2
        THEN 60 * DecimalValue(p[1]) + DecimalValue(p[2])
        ELSE 3600 * DecimalValue(p[1]) + 60 * DecimalValue(p[2]) + DecimalValue(p[3])

\* C10: parseDuration gives 60*M+SS for M:SS and 3600*H+60*MM+SS for
\* H:MM:SS, and 'no duration' (null) for every other string.
C10_ParseDurationAgreesWithReference ==
    (req.endpoint = "parseDuration" /\ res # Undefined) =>
        res = IF WellFormedDuration(req.path)
              THEN Num(ReferenceSeconds(req.path))
              ELSE Null

\* What C10 says of the well-formed strings and of a wrong number of
\* segments, where the code agrees with the reference.
C10_WellFormedAgrees ==
    (req.endpoint = "parseDuration" /\ res # Undefined) =>
        /\ WellFormedDuration(req.path) => res = Num(ReferenceSeconds(req.path))
        /\ Len(Split(req.path, ":")) \notin {2, 3} => res = Null
        /\ req.path = FiveThirty => res = Num(330)

---------------------------------------------------------------------------
(* The ordering of the episodes on its own                                 *)

\* 1969-12-31_O.mp3, 2024-12-01_D.mp3, c.mp3
Old      == DateText(1969, 12, 31) \o <<"_", "O">> \o Mp3
SameDay  == DateText(2024, 12, 1) \o <<"_", "D">> \o Mp3
Extra    == <<"c">> \o Mp3

SortFiles == {Old, FirstDay, SameDay, SecondDay, Bonus, Extra}

MaxSortLen == 3

\* The enumerations of the source: up to MaxSortLen distinct names
Enumerations ==
    UNION {{l \in [1..n -> SortFiles] : \A i, j \in 1..n : i # j => l[i] # l[j]}
           : n \in 0..MaxSortLen}

InitSort ==
    /\ projectDomain = FALSE
    /\ tzOffset = 0
    /\ now = ClockStart
    /\ audioDir = {}
    /\ glitchAssets = [readable |-> FALSE, lines |-> <<>>]
    /\ metadataFile = [state |-> "missing", doc |-> Null]
    /\ req \in {Call("sort", l) : l \in Enumerations}
    /\ res = Undefined
    /\ released = {}

\* names.map(f => getEpisodeDetails(f, metadata)).sort(...) as /feed.xml and
\* /episodes do it
SortEpisodes ==
    /\ res = Undefined
    /\ \E sorted \in SortOutcomes(Resolve(req.path, loadMetadata)) :
          res' = List(sorted)
    /\ UNCHANGED <<Env, now, req, released>>

NextSort == SortEpisodes

SpecSort == InitSort /\ [][NextSort]_vars

\* Position of name f in the source enumeration
SourceIndex(f) == CHOOSE i \in 1..Len(req.path) : req.path[i] = f

Dated(e) == e.releaseDate.t = "date"

\* Episode a may stand before episode b
InOrder(a, b) ==
    /\ (Dated(a) /\ Dated(b)) => a.releaseDate.v >= b.releaseDate.v
    /\ ~(~Dated(a) /\ Dated(b))
    /\ (a.releaseDate = b.releaseDate) =>
          SourceIndex(a.filename) < SourceIndex(b.filename)

\* C14: the episodes are ordered by release date descending, every episode
\* without a release date comes after every episode with one, also for
\* dates before 1970, and episodes with equal dates keep the order of the
\* source enumeration.
C14_NewestFirstUndatedLast ==
    (req.endpoint = "sort" /\ res.t = "array") =>
        \A i, j \in 1..Len(res.v) : i < j => InOrder(res.v[i], res.v[j])

\* What holds of C14: the order is the claimed one when every date is after
\* 1970-01-01.
C14_OrderedAfter1970 ==
    (/\ req.endpoint = "sort" /\ res.t = "array"
     /\ \A i \in 1..Len(res.v) : Dated(res.v[i]) => res.v[i].releaseDate.v > 0) =>
        \A i, j \in 1..Len(res.v) : i < j => InOrder(res.v[i], res.v[j])

---------------------------------------------------------------------------
(* The server over every state of the metadata document                    *)

\* A parsed document that is a mapping with the given sections
Document(podcast, episodes) ==
    [t |-> "object", podcast |-> podcast, episodes |-> episodes]

\* A parsed document that is a scalar: it has no sections
Scalar(text) ==
    [t |-> "string", v |-> text, podcast |-> Undefined, episodes |-> Undefined]

Parsed(doc) == [state |-> "parsed", doc |-> doc]

Show == Object([title |-> Str(<<"P">>)])

\* metadata.yml is missing, unreadable, not YAML, empty, a scalar, a mapping
\* without episodes, a mapping without podcast, or a mapping with both
DocumentStates ==
    {[state |-> "missing", doc |-> Null],
     [state |-> "unreadable", doc |-> Null],
     [state |-> "malformed", doc |-> Null],
     Parsed(Undefined),
     Parsed(Scalar(<<"x">>)),
     Parsed(Document(Show, Undefined)),
     Parsed(Document(Show, Null)),
     Parsed(Document(Undefined, Object(<<>>))),
     Parsed(Document(Show, Object(<<>>)))}

A30 == <<"a", ":", "3", "0">>

\* Documents in which the entry of 2024-12-01_A_B.mp3 holds a duration that
\* is no duration string: a number (YAML 330), or text that is not M:SS
FieldStates ==
    {Parsed(Document(Show, Object((FirstDay :> Entry([duration |-> d])))))
        : d \in {Num(330), Str(A30), Str(FiveThirty)}}

\* A document whose podcast section contains an alias to itself
AliasStates == {Parsed(Document(Circular, Object(<<>>)))}

InitMetadata ==
    /\ projectDomain \in BOOLEAN
    /\ tzOffset = 0
    /\ now = ClockStart
    /\ metadataFile \in DocumentStates \cup FieldStates \cup AliasStates
    /\ IF projectDomain
       THEN /\ glitchAssets \in
                 {[readable |-> TRUE, lines |-> l] : l \in
                     {<<Asset(FirstDay, <<"u", "1">>, 10, <<"1">>)>>,
                      <<Asset(Bonus, <<"u", "3">>, 30, <<"3">>),
                        Asset(FirstDay, <<"u", "1">>, 10, <<"1">>)>>}}
            /\ audioDir \in {{}, {File(Bonus, 30)}}
       ELSE /\ glitchAssets = [readable |-> FALSE, lines |-> <<>>]
            /\ audioDir \in SUBSET {File(FirstDay, 10), File(Bonus, 30)}
    /\ req = NoRequest
    /\ res = NoResponse
    /\ released = {}

SpecMetadata == InitMetadata /\ [][Next]_vars

\* The document is missing, unreadable, not parsable, or parsed into a value
\* that is no mapping or lacks the episodes or the podcast section.
Degraded ==
    \/ metadataFile.state # "parsed"
    \/ metadataFile.doc.t # "object"
    \/ ~Truthy(metadataFile.doc.episodes)
    \/ ~Truthy(metadataFile.doc.podcast)

\* Every episode of the response carries the defaults of its filename.
AllDefaults(r) ==
    /\ \A i \in 1..Len(r.items) :
          /\ r.items[i].title = Str(DefaultTitle(r.items[i].filename))
          /\ r.items[i].itunesDuration = Null
    /\ \A i \in 1..Len(r.episodes) :
          /\ r.episodes[i].title = Str(DefaultTitle(r.episodes[i].filename))
          /\ r.episodes[i].duration = Null

\* C11: whatever the state of the metadata document (missing, unreadable,
\* not parsable, parsed into a value without episodes or podcast or into a
\* value that is no mapping), /feed.xml, /episodes and /audio do not answer
\* with a server error and every episode has its filename-derived defaults.
C11_DegradedMetadataNeverFails ==
    (/\ req.endpoint \in {"/feed.xml", "/episodes", "/audio"}
     /\ GoodToken
     /\ Degraded) =>
        /\ res.status # 500
        /\ AllDefaults(res)

\* What holds of C11: a document that is missing, unreadable, not parsable
\* or empty is read as the empty metadata.
C11_UnreadableDocumentIsEmpty ==
    (/\ req.endpoint \in {"/feed.xml", "/episodes", "/audio"}
     /\ GoodToken
     /\ (metadataFile.state # "parsed" \/ ~Truthy(metadataFile.doc))) =>
        /\ loadMetadata = EmptyMetadata
        /\ res.status # 500
        /\ AllDefaults(res)

\* The entry of 2024-12-01_A_B.mp3 sets a duration that is no duration
\* string: a value of another type, or text that is not M:SS or H:MM:SS.
MalformedDuration ==
    /\ metadataFile.state = "parsed"
    /\ metadataFile.doc.t = "object"
    /\ metadataFile.doc.episodes.t = "object"
    /\ FirstDay \in DOMAIN metadataFile.doc.episodes.v
    /\ LET d == metadataFile.doc.episodes.v[FirstDay].v.duration
       IN  /\ d # Undefined
           /\ d.t = "string" => ~WellFormedDuration(d.v)

\* The episode of file f in the response, with the field holding its duration
DurationsOf(r, f) ==
    {r.items[i].itunesDuration : i \in {k \in 1..Len(r.items) :
                                          r.items[k].filename = f}}
    \cup {r.episodes[i].duration : i \in {k \in 1..Len(r.episodes) :
                                            r.episodes[k].filename = f}}

\* C12: when the entry of one file holds a malformed value for one field (a
\* duration that is no well-formed duration string, of any type), /feed.xml
\* and /episodes still answer 200, that episode is there with only that
\* field defaulted, and the other episodes are unchanged.
C12_MalformedFieldIsDefaulted ==
    (/\ req.endpoint \in {"/feed.xml", "/episodes"}
     /\ GoodToken
     /\ MalformedDuration) =>
        /\ res.status = 200
        /\ (FirstDay \in SourceNames /\ req.endpoint = "/episodes") =>
              FirstDay \in EpisodeNames(res)
        /\ (FirstDay \in SourceNames /\ req.endpoint = "/feed.xml"
            /\ shouldReleaseEpisode(ReleaseDateOf(FirstDay))) =>
              FirstDay \in ItemNames(res)
        /\ DurationsOf(res, FirstDay) \subseteq {Null}
        /\ \A f \in (ItemNames(res) \cup EpisodeNames(res)) \ {FirstDay} :
              DurationsOf(res, f) = {Null}

\* What holds of C12: a duration that is text never fails the request and
\* never drops the episode (its duration is NaN instead of absent).
C12_TextDurationKeepsEpisode ==
    (/\ req.endpoint \in {"/feed.xml", "/episodes"}
     /\ GoodToken
     /\ MalformedDuration
     /\ metadataFile.doc.episodes.v[FirstDay].v.duration.t = "string") =>
        /\ res.status = 200
        /\ (FirstDay \in SourceNames /\ req.endpoint = "/episodes") =>
              FirstDay \in EpisodeNames(res)
        /\ DurationsOf(res, FirstDay) \subseteq {NaN}

\* C19: on every endpoint, the response to an unexpected failure inside the
\* handler is the generic server-error response: its body holds no library
\* error message, no file path and no stack trace.
C19_ServerErrorsAreGeneric ==
    res.status = 500 =>
        /\ res.error = "Server error"
        /\ res.stack = ""
        /\ res.metadata = Undefined

\* What holds of C19: /audio, /feed.xml and /episodes answer a failure with
\* the one generic body.
C19_EpisodeEndpointsAreGeneric ==
    (req.endpoint \in {"/audio", "/feed.xml", "/episodes"} /\ res.status = 500) =>
        res = ServerError(res.io)

\* The request asks /audio, with the secret, for a file that exists, has a
\* supported extension and is released
ServableRequest ==
    /\ req.endpoint = "/audio"
    /\ GoodToken
    /\ Exists(audioDir, Requested)
    /\ IsSupported(Requested)
    /\ shouldReleaseEpisode(ReleaseDateOf(Requested))

\* C15: /audio with the correct token, for an existing released file with a
\* supported extension, streams the file with the content type the format
\* table gives for its extension, whatever the sniff of its content says.
C15_ServableFileIsStreamed ==
    ServableRequest =>
        /\ res.status = 200
        /\ res.type = SUPPORTED_FORMATS[ExtensionOf(Requested)]
        /\ res.stream = Requested

\* The hosted manifest has neither a URL nor a deletion for the name
NotHosted(f) ==
    isGlitch => /\ f \notin getGlitchAssets.deletedFiles
                /\ AssetGet(getGlitchAssets.assets, f) = Undefined

\* What holds of C15: once the episode resolves and the manifest does not
\* take the request over, the file is streamed with the table's type; the
\* sniff only adds log lines.
C15_SniffNeverRejects ==
    (/\ ServableRequest
     /\ NotHosted(Requested)
     /\ getEpisodeDetails(Requested, loadMetadata).t = "episode") =>
        /\ res.status = 200
        /\ res.type = SUPPORTED_FORMATS[ExtensionOf(Requested)]
        /\ res.stream = Requested

\* A state where the sniffed type differs from the extension and the file
\* is streamed all the same
C15_MismatchStreamed ==
    /\ ServableRequest
    /\ Requested = Bonus
    /\ res.status = 200
    /\ res.type = "audio/ogg"
    /\ \E i \in 1..Len(res.io) : res.io[i] = "console.warn mismatched type"

---------------------------------------------------------------------------
(* The server over the two sources of files: local directory, hosted assets *)

\* The lines a manifest is made of: three assets (one of them n.txt), the
\* deletion of the first, and a line that is not JSON
SourceLines ==
    {Asset(FirstDay, <<"u", "1">>, 10, <<"1">>),
     Asset(Bonus, <<"u", "3">>, 30, <<"3">>),
     Asset(Notes, <<"u", "5">>, 50, <<"5">>),
     Deletion(<<"1">>),
     BadLine}

MaxSourceLines == 3

\* The manifests: up to MaxSourceLines of the lines, in every order
SourceManifests ==
    UNION {{l \in [1..n -> SourceLines] : \A i, j \in 1..n : i # j => l[i] # l[j]}
           : n \in 0..MaxSourceLines}

\* 2024-12-01T12:00Z
SourcesClockStart == ClockStart + 2 * TickHours

InitSources ==
    /\ projectDomain \in BOOLEAN
    /\ tzOffset = 0
    /\ now = SourcesClockStart
    /\ metadataFile = [state |-> "missing", doc |-> Null]
    /\ IF projectDomain
       THEN /\ glitchAssets \in
                 {[readable |-> TRUE, lines |-> l] : l \in SourceManifests}
            /\ audioDir \in {{}, {File(Notes, 50)}}
       ELSE /\ glitchAssets = [readable |-> FALSE, lines |-> <<>>]
            /\ audioDir \in SUBSET {File(FirstDay, 10), File(Notes, 50),
                                    Dangling(Bonus)}
    /\ req = NoRequest
    /\ res = NoResponse
    /\ released = {}

SpecSources == InitSources /\ [][Next]_vars

\* C16: /audio with the correct token, for an existing file whose extension
\* is not supported, answers 400 and produces neither file bytes nor a
\* redirect to a hosted URL, in the local and in the hosted configuration.
C16_UnsupportedExtensionIs400 ==
    (/\ req.endpoint = "/audio"
     /\ GoodToken
     /\ Exists(audioDir, Requested)
     /\ ~IsSupported(Requested)) =>
        /\ res.status = 400
        /\ res.stream = <<>>
        /\ res.location = Undefined

\* What holds of C16: the local configuration, and the hosted one when the
\* manifest has nothing for the name.
C16_UnsupportedLocalIs400 ==
    (/\ req.endpoint = "/audio"
     /\ GoodToken
     /\ Exists(audioDir, Requested)
     /\ ~IsSupported(Requested)
     /\ NotHosted(Requested)) =>
        /\ res.status = 400
        /\ res.stream = <<>>
        /\ res.location = Undefined

\* The configured source yields a URL and a size for name f: the local file
\* can be stat'ed, or the hosted asset has a URL.
Usable(f) ==
    IF isGlitch
    THEN LET a == AssetGet(getGlitchAssets.assets, f)
         IN  a.t = "object" /\ Truthy(a.v.url)
    ELSE Exists(audioDir, f)

\* The names the configured source enumerates (dangling links included)
Enumerated ==
    IF isGlitch THEN SourceNames ELSE {f.name : f \in audioDir}

\* C17: a released episode for which neither the stat of the local file nor
\* the hosted-asset lookup yields a usable URL and size is skipped: the feed
\* is still returned with status 200 and has all the other released
\* episodes.
C17_UnusableEpisodeIsSkipped ==
    (req.endpoint = "/feed.xml" /\ GoodToken) =>
        /\ res.status = 200
        /\ ItemNames(res) =
              {f \in Enumerated :
                  /\ IsSupported(f)
                  /\ shouldReleaseEpisode(ReleaseDateOf(f))
                  /\ Usable(f)}

\* What holds of C17: when every released candidate is usable the feed has
\* them all, and the hosted feed never fails.
C17_UsableEpisodesAreListed ==
    (/\ req.endpoint = "/feed.xml" /\ GoodToken
     /\ \A f \in Enumerated :
           (IsSupported(f) /\ shouldReleaseEpisode(ReleaseDateOf(f))) => Usable(f)) =>
        /\ res.status = 200
        /\ ItemNames(res) =
              {f \in Enumerated :
                  IsSupported(f) /\ shouldReleaseEpisode(ReleaseDateOf(f))}

\* The manifest has an entry named f and an entry with deleted set and the
\* same uuid
HasDeletionRecord(f) ==
    \E i, j \in 1..Len(glitchAssets.lines) :
        LET d == glitchAssets.lines[i]
            a == glitchAssets.lines[j]
        IN  /\ d.t = "object" /\ Truthy(d.v.deleted)
            /\ a.t = "object" /\ a.v.name = Str(f)
            /\ a.v.uuid = d.v.uuid

\* The manifest has a live entry named f
HasLiveEntry(f) ==
    \E j \in 1..Len(glitchAssets.lines) :
        LET a == glitchAssets.lines[j]
        IN  /\ a.t = "object" /\ a.v.name = Str(f)
            /\ Truthy(a.v.url) /\ ~Truthy(a.v.deleted)

\* C20: in the hosted configuration, for every manifest (any order of lines,
\* lines that are not JSON included), a name whose asset has a deletion
\* record is absent from /feed.xml and /episodes and gets 404 from /audio,
\* and a name with a live entry and no deletion record is in the asset map.
C20_DeletedAssetsAreGone ==
    (isGlitch /\ GoodToken) =>
        \A f \in FileNames :
            /\ HasDeletionRecord(f) =>
                  /\ f \notin ItemNames(res) \cup EpisodeNames(res)
                  /\ (req.endpoint = "/audio" /\ Requested = f) => res.status = 404
            /\ (HasLiveEntry(f) /\ ~HasDeletionRecord(f)) =>
                  AssetGet(getGlitchAssets.assets, f).t = "object"

\* What holds of C20: the manifests in which every line is JSON.
C20_DeletedWhenAllLinesParse ==
    (/\ isGlitch /\ GoodToken
     /\ \A i \in 1..Len(glitchAssets.lines) : glitchAssets.lines[i].t = "object") =>
        \A f \in FileNames :
            /\ HasDeletionRecord(f) =>
                  /\ f \notin ItemNames(res) \cup EpisodeNames(res)
                  /\ (req.endpoint = "/audio" /\ Requested = f) => res.status = 404
            /\ (HasLiveEntry(f) /\ ~HasDeletionRecord(f)) =>
                  AssetGet(getGlitchAssets.assets, f).t = "object"

---------------------------------------------------------------------------
(* A request interleaved with the removal of files (local configuration)   *)

\* A request whose handler is suspended at an await: seen is what its first
\* file-system call returned (the listing of readdir, or the directory in
\* which access succeeded or failed).
InFlight(endpoint, path, seen) ==
    [endpoint |-> endpoint, path |-> path, token |-> Str(SECRET_TOKEN),
     seen |-> seen]

RaceFiles == {File(FirstDay, 10), File(Bonus, 30), File(Notes, 50)}

InitRace ==
    /\ projectDomain = FALSE
    /\ tzOffset = 0
    /\ now = SourcesClockStart
    /\ metadataFile = [state |-> "missing", doc |-> Null]
    /\ glitchAssets = [readable |-> FALSE, lines |-> <<>>]
    /\ audioDir \in SUBSET RaceFiles
    /\ req = NoRequest
    /\ res = NoResponse
    /\ released = {}

\* The handler has not answered yet
Pending == req # NoRequest /\ res = NoResponse

\* The process has exited
Exited == res.error = ProcessExit(<<>>).error

\* /feed.xml up to the await of readdir (line 657)
ListForFeed ==
    /\ Idle /\ res = NoResponse
    /\ \E listing \in readdir(audioDir) :
          req' = InFlight("/feed.xml", <<>>, listing)
    /\ UNCHANGED <<Env, now, res, released>>

\* /audio up to the await of access (line 587)
AccessForAudio ==
    /\ Idle /\ res = NoResponse
    /\ \E f \in RaceFiles :
          req' = InFlight("/audio", <<"/">> \o f.name, audioDir)
    /\ UNCHANGED <<Env, now, res, released>>

\* Somebody removes a file of AUDIO_DIR while no response is being read
RemoveFile ==
    /\ res = NoResponse
    /\ \E f \in audioDir : audioDir' = audioDir \ {f}
    /\ UNCHANGED <<projectDomain, tzOffset, glitchAssets, metadataFile, now,
                   req, res, released>>

\* /feed.xml from the filter to the response (lines 658-711)
FinishFeed ==
    /\ Pending /\ req.endpoint = "/feed.xml"
    /\ res' \in FeedFrom(req.seen, audioDir)
    /\ UNCHANGED <<Env, now, req, released>>

\* /audio from the extension check to the response (lines 592-619)
FinishAudio ==
    /\ Pending /\ req.endpoint = "/audio"
    /\ \E sniff \in Sniffs :
          res' = AudioHandler(req.path, req.token, req.seen, audioDir, sniff)
    /\ UNCHANGED <<Env, now, req, released>>

\* The response has been delivered; after an exit nothing follows.
Delivered ==
    /\ req # NoRequest /\ res # NoResponse /\ ~Exited
    /\ req' = NoRequest
    /\ res' = NoResponse
    /\ UNCHANGED <<Env, now, released>>

NextRace ==
    ListForFeed \/ AccessForAudio \/ RemoveFile \/ FinishFeed \/ FinishAudio
    \/ Delivered

SpecRace == InitRace /\ [][NextRace]_vars

\* The names the request saw and that are gone when it stats or opens them
Vanished ==
    IF req.endpoint = "/feed.xml"
    THEN {req.seen[i] : i \in 1..Len(req.seen)} \ {f.name : f \in audioDir}
    ELSE {f.name : f \in req.seen} \ {f.name : f \in audioDir}

\* The request has been answered (or has ended the process) and a file it
\* was about to stat or stream had vanished
AnsweredAfterRemoval ==
    /\ req # NoRequest /\ res # NoResponse
    /\ IF req.endpoint = "/feed.xml"
       THEN \E f \in Vanished :
               IsSupported(f) /\ shouldReleaseEpisode(ReleaseDateOf(f))
       ELSE /\ Requested \in Vanished
            /\ IsSupported(Requested)
            /\ shouldReleaseEpisode(ReleaseDateOf(Requested))

\* C18: when a file is removed after the request has listed it or checked
\* its existence and before the request stats or streams it, the request
\* ends as 'not found' for the caller: no server error for the whole
\* response, no missing response, no exit of the server.
C18_VanishedFileIsNotFound ==
    AnsweredAfterRemoval =>
        /\ ~Exited
        /\ res.status \notin {0, 500}
        /\ req.endpoint = "/audio" => res.status = 404
        /\ req.endpoint = "/feed.xml" =>
              /\ res.status = 200
              /\ ItemNames(res) \cap Vanished = {}

\* What holds of C18: a request during which nothing it needs is removed
\* neither fails nor ends the process.
C18_QuietRequestSucceeds ==
    (req # NoRequest /\ res # NoResponse /\ ~AnsweredAfterRemoval) =>
        /\ ~Exited
        /\ res.status \in {200, 400, 404}

---------------------------------------------------------------------------
(* Names whose prefix has the shape of a date but is no calendar date      *)

\* The prefix of f matches YYYY-MM-DD and new Date of it is an Invalid Date
HasInvalidDate(f) ==
    DatePatternMatches(f) /\ ReleaseDateOf(f).t = "invalid-date"

\* The names of a list of episodes or feed items, in their order
NamesOf(list) == [i \in 1..Len(list) |-> list[i].filename]

\* A list of names without the names of an invalid date
ValidOnly(names) == SelectSeq(names, LAMBDA f : ~HasInvalidDate(f))

\* AUDIO_DIR without the files of an invalid date
ValidFiles == {f \in audioDir : ~HasInvalidDate(f.name)}

\* C21: a filename whose prefix has the shape YYYY-MM-DD but is no calendar
\* date causes no failure in any endpoint and is treated as not released by
\* all of them at every 'now': it is absent from /feed.xml and from
\* /episodes, /audio answers 404 for it, and the order of the remaining
\* episodes is what it is without the file.
C21_InvalidDateIsNeverReleased ==
    (GoodToken /\ req.endpoint \in {"/feed.xml", "/episodes", "/audio"}) =>
        /\ res.status # 500
        /\ \A f \in ItemNames(res) \cup EpisodeNames(res) : ~HasInvalidDate(f)
        /\ (req.endpoint = "/audio" /\ HasInvalidDate(Requested)) =>
              res.status = 404
        /\ (req.endpoint = "/feed.xml" /\ ~isGlitch) =>
              ValidOnly(NamesOf(res.items)) \in
                 {NamesOf(r.items) : r \in FeedHandler(req.token, ValidFiles)}
        /\ (req.endpoint = "/episodes" /\ ~isGlitch) =>
              ValidOnly(NamesOf(res.episodes)) \in
                 {NamesOf(r.episodes) : r \in EpisodesHandler(req.token, ValidFiles)}

\* What holds of C21: the gate is false for an Invalid Date, so the feed
\* never has the file and the local /audio answers 404 for it, and no
\* endpoint fails.
C21_InvalidDateNotInFeed ==
    (GoodToken /\ req.endpoint \in {"/feed.xml", "/episodes", "/audio"}) =>
        /\ res.status # 500
        /\ \A f \in ItemNames(res) : ~HasInvalidDate(f)
        /\ (req.endpoint = "/audio" /\ HasInvalidDate(Requested)) =>
              res.status = 404
        /\ \A f \in FileNames :
              HasInvalidDate(f) => ~shouldReleaseEpisode(ReleaseDateOf(f))

\* The ordering with a name of an invalid date among the candidates
InvalidDateFiles == {BadDate, FirstDay, SecondDay, Bonus}

InitInvalidDate ==
    /\ projectDomain = FALSE
    /\ tzOffset = 0
    /\ now = ClockStart
    /\ audioDir = {}
    /\ glitchAssets = [readable |-> FALSE, lines |-> <<>>]
    /\ metadataFile = [state |-> "missing", doc |-> Null]
    /\ req \in {Call("sort", l) : l \in
                  UNION {{l \in [1..n -> InvalidDateFiles] :
                            \A i, j \in 1..n : i # j => l[i] # l[j]}
                         : n \in 0..MaxSortLen}}
    /\ res = Undefined
    /\ released = {}

SpecInvalidDate == InitInvalidDate /\ [][NextSort]_vars

\* The part of C21 about the order: the remaining episodes stand in the
\* order they have when the file of the invalid date is not there.
C21_OthersKeepTheirOrder ==
    (req.endpoint = "sort" /\ res.t = "array") =>
        ValidOnly(NamesOf(res.v)) \in
           {NamesOf(sorted) :
               sorted \in SortOutcomes(Resolve(ValidOnly(req.path), loadMetadata))}

====
